---- MODULE Spec2Model ----
(***************************************************************************)
(* Model of src/lib.rs: the three platform detectors detect_os,            *)
(* detect_architecture and detect_windowsystem, and the ambient signals    *)
(* they read (std::env::consts::OS, std::env::consts::ARCH, the cfg        *)
(* values target_env and target_os, and the process environment            *)
(* variables DISPLAY, WAYLAND_DISPLAY and XDG_SESSION_TYPE).               *)
(*                                                                         *)
(* Enum values are tuples of constructor names, outermost first, with the  *)
(* names of the source: OperatingSystem::UnixLike(UnixLike::Linux(         *)
(* LinuxKernel::Android)) is <<"UnixLike", "Linux", "Android">>.           *)
(***************************************************************************)
EXTENDS Naturals, Sequences, FiniteSets

VARIABLES OS, ARCH, target_env, target_os, environ, ret, calls

vars == <<OS, ARCH, target_env, target_os, environ, ret, calls>>

signals == <<OS, ARCH, target_env, target_os, environ>>

(* Largest number of detector calls followed in one run. *)
MaxCalls == 2

----------------------------------------------------------------------------
(* Input domains *)

(* Values of std::env::consts::OS: the twelve names the code matches and   *)
(* names it does not match (other Apple families, a differently cased      *)
(* name, the empty string, an unrelated system).                           *)
Platforms ==
    {"linux", "macos", "windows", "freebsd", "netbsd", "openbsd",
     "dragonfly", "solaris", "illumos", "dos", "android", "ios",
     "watchos", "tvos", "Linux", "", "redox"}

(* Values of std::env::consts::ARCH: the 22 names the code matches and     *)
(* names it does not match.                                                *)
Archs ==
    {"x86_64", "i386", "i486", "i586", "i686", "8086", "arm", "aarch64",
     "mips", "mips64", "powerpc", "sparc", "risc", "riscv", "alpha",
     "ia64", "hppa", "s390", "s390x", "sh", "systemz", "xcore",
     "x86", "AArch64", "nonexistent-arch"}

(* Values of cfg target_env. *)
TargetEnvs == {"gnu", "musl", ""}

(* A process environment variable is unset, set to bytes that are not      *)
(* valid Unicode, or set to a string.                                      *)
Unset == <<"Unset">>
Bytes == <<"Bytes">>
Str(s) == <<"Str", s>>

DisplayValues == {Unset, Bytes, Str(":0")}
WaylandDisplayValues == {Unset, Bytes, Str("wayland-0")}
SessionTypeValues ==
    {Unset, Bytes, Str("wayland"), Str("x11"), Str("Wayland"),
     Str("something-else")}

EnvNames == {"DISPLAY", "WAYLAND_DISPLAY", "XDG_SESSION_TYPE"}

Environs ==
    {e \in [EnvNames -> DisplayValues \cup WaylandDisplayValues
                          \cup SessionTypeValues] :
        /\ e["DISPLAY"] \in DisplayValues
        /\ e["WAYLAND_DISPLAY"] \in WaylandDisplayValues
        /\ e["XDG_SESSION_TYPE"] \in SessionTypeValues}

----------------------------------------------------------------------------
(* Taxonomy *)

LinuxKernel == {"NormalLinuxGnu", "NormalLinuxMusl", "Android", "ChromeOS"}
DarwinKernel == {"MacOSGreaterThan9", "IOS", "IPadOs", "WatchOS", "TVOS"}
NTKernel == {"Windows", "WindowsServer"}

UnixLike ==
    {<<"Linux", k>> : k \in LinuxKernel}
      \cup {<<"Darwin", k>> : k \in DarwinKernel}
      \cup {<<"BSD">>, <<"SolarisOrUhOopsIMeanIllumos">>}

OperatingSystem ==
    {<<"UnixLike">> \o u : u \in UnixLike}
      \cup {<<"Windows", k>> : k \in NTKernel}
      \cup {<<"DOS">>, <<"Unknown">>}

X86 == {"AMD64", "I386", "I486", "I586", "I686", "EightyEightySix"}
ARM == {"AArch32", "AArch64", "AppleSilicon"}
MIPS == {"MipsI", "MipsII", "MipsIII", "MipsIV", "MipsV", "Mips32", "Mips64"}

CPU ==
    {<<"X86", v>> : v \in X86}
      \cup {<<"ARM", v>> : v \in ARM}
      \cup {<<"MIPS", v>> : v \in MIPS}
      \cup {<<"PowerPC">>, <<"SPARC">>, <<"RISC">>, <<"RISCV">>, <<"Alpha">>,
            <<"IA64">>, <<"HPPA">>, <<"S390">>, <<"S390X">>, <<"SuperH">>,
            <<"SystemZ">>, <<"XCore">>, <<"Other">>}

WindowSystem ==
    {<<"X11">>, <<"Wayland">>, <<"ExplorerDotExe">>, <<"Quartz">>,
     <<"Unknown">>, <<"None">>}

(* No value returned yet by a detector. *)
NoCall == <<"NoCall">>

----------------------------------------------------------------------------
(* Standard-library operations the detectors use *)

(* cfg!(key = "value"): true iff the build's value of the key is value. *)
cfg(key, value) == key = value

(* std::env::var(name): Ok(string), Err(NotPresent) or Err(NotUnicode). *)
var(e, name) ==
    IF e[name] = Unset THEN <<"Err", "NotPresent">>
    ELSE IF e[name] = Bytes THEN <<"Err", "NotUnicode">>
    ELSE <<"Ok", e[name][2]>>

is_ok(r) == r[1] = "Ok"

unwrap_or(r, default) == IF r[1] = "Ok" THEN r[2] ELSE default

----------------------------------------------------------------------------
(* detect_os *)

(* Variant: the fallback branch still holds the todo!() of its comment. *)
linux_kernel_todo(tenv) ==
    IF cfg(tenv, "gnu") THEN "NormalLinuxGnu"
    ELSE IF cfg(tenv, "musl") THEN "NormalLinuxMusl"
    ELSE "Panic"

linux_kernel(tenv) ==
    IF cfg(tenv, "gnu") THEN "NormalLinuxGnu"
    ELSE IF cfg(tenv, "musl") THEN "NormalLinuxMusl"
    ELSE "NormalLinuxGnu"

darwin_kernel(tos) ==
    IF cfg(tos, "ios") THEN "IOS"
    ELSE IF cfg(tos, "macos") THEN "MacOSGreaterThan9"
    ELSE IF cfg(tos, "ipados") THEN "IPadOs"
    ELSE IF cfg(tos, "watchos") THEN "WatchOS"
    ELSE IF cfg(tos, "tvos") THEN "TVOS"
    ELSE "MacOSGreaterThan9"

os_match(os, tenv, tos) ==
    CASE os = "linux" -> <<"UnixLike", "Linux", linux_kernel(tenv)>>
      [] os = "macos" -> <<"UnixLike", "Darwin", darwin_kernel(tos)>>
      [] os = "windows" -> <<"Windows", "Windows">>
      [] os \in {"freebsd", "netbsd", "openbsd", "dragonfly"} ->
            <<"UnixLike", "BSD">>
      [] os \in {"solaris", "illumos"} ->
            <<"UnixLike", "SolarisOrUhOopsIMeanIllumos">>
      [] os = "dos" -> <<"DOS">>
      [] os = "android" -> <<"UnixLike", "Linux", "Android">>
      [] os = "ios" -> <<"UnixLike", "Darwin", "IOS">>
      [] OTHER -> <<"Unknown">>

(* Variant: the BSD arm misses "dragonfly". *)
detect_os_no_dragonfly(os, tenv, tos) ==
    IF os = "dragonfly" THEN <<"Unknown">> ELSE os_match(os, tenv, tos)

detect_os(os, tenv, tos) == os_match(os, tenv, tos)

----------------------------------------------------------------------------
(* detect_architecture *)

arch_match(arch) ==
    CASE arch = "x86_64" -> <<"X86", "AMD64">>
      [] arch = "i386" -> <<"X86", "I386">>
      [] arch = "i486" -> <<"X86", "I486">>
      [] arch = "i586" -> <<"X86", "I586">>
      [] arch = "i686" -> <<"X86", "I686">>
      [] arch = "8086" -> <<"X86", "EightyEightySix">>
      [] arch = "arm" -> <<"ARM", "AArch32">>
      [] arch = "aarch64" -> <<"ARM", "AArch64">>
      [] arch = "mips" -> <<"MIPS", "Mips32">>
      [] arch = "mips64" -> <<"MIPS", "Mips64">>
      [] arch = "powerpc" -> <<"PowerPC">>
      [] arch = "sparc" -> <<"SPARC">>
      [] arch = "risc" -> <<"RISC">>
      [] arch = "riscv" -> <<"RISCV">>
      [] arch = "alpha" -> <<"Alpha">>
      [] arch = "ia64" -> <<"IA64">>
      [] arch = "hppa" -> <<"HPPA">>
      [] arch = "s390" -> <<"S390">>
      [] arch = "s390x" -> <<"S390X">>
      [] arch = "sh" -> <<"SuperH">>
      [] arch = "systemz" -> <<"SystemZ">>
      [] arch = "xcore" -> <<"XCore">>
      [] OTHER -> <<"Other">>

(* Variant: "s390x" is caught by the "s390" arm (prefix match). *)
detect_architecture_prefix(arch) ==
    IF arch = "s390x" THEN <<"S390">> ELSE arch_match(arch)

(* Variant: "mips" is classified as the first MIPS revision. *)
detect_architecture_mips1(arch) ==
    IF arch = "mips" THEN <<"MIPS", "MipsI">> ELSE arch_match(arch)

detect_architecture(arch) == arch_match(arch)

----------------------------------------------------------------------------
(* detect_windowsystem *)

(* Variant: || in place of &&. *)
on_tty_or(e) == ~is_ok(var(e, "DISPLAY")) \/ ~is_ok(var(e, "WAYLAND_DISPLAY"))

on_tty(e) == ~is_ok(var(e, "DISPLAY")) /\ ~is_ok(var(e, "WAYLAND_DISPLAY"))

(* Variant: the session type is compared ignoring case. *)
session_window_system_nocase(e) ==
    LET session_type == unwrap_or(var(e, "XDG_SESSION_TYPE"), "x11")
    IN  IF session_type \in {"wayland", "Wayland"}
        THEN <<"Wayland">> ELSE <<"X11">>

session_window_system(e) ==
    LET session_type == unwrap_or(var(e, "XDG_SESSION_TYPE"), "x11")
    IN  IF session_type = "wayland" THEN <<"Wayland">> ELSE <<"X11">>

linux_window_system(e) ==
    IF on_tty(e) THEN <<"None">> ELSE session_window_system(e)

ws_match(os, e) ==
    CASE os = "linux" -> linux_window_system(e)
      [] os = "macos" -> <<"Quartz">>
      [] os = "windows" -> <<"ExplorerDotExe">>
      [] OTHER -> <<"Unknown">>

(* Variant: the tty check is made before the match on the platform. *)
detect_windowsystem_tty_first(os, e) ==
    IF on_tty(e) THEN <<"None">> ELSE ws_match(os, e)

(* Variant: "windows" also goes through the X11/Wayland decision. *)
detect_windowsystem_x_on_windows(os, e) ==
    IF os = "windows" THEN linux_window_system(e) ELSE ws_match(os, e)

detect_windowsystem(os, e) == ws_match(os, e)

----------------------------------------------------------------------------
(* State machine: a host program calling the detectors *)

(* The signals are fixed when the process starts.  std::env::consts::OS    *)
(* and cfg target_os are the same property of the compilation target, so   *)
(* a build has target_os = OS.                                             *)
Init ==
    /\ OS \in Platforms
    /\ ARCH \in Archs
    /\ target_env \in TargetEnvs
    /\ target_os = OS
    /\ environ \in Environs
    /\ ret = [os |-> NoCall, arch |-> NoCall, ws |-> NoCall]
    /\ calls = 0

call_detect_os ==
    /\ calls < MaxCalls
    /\ ret' = [ret EXCEPT !.os = detect_os(OS, target_env, target_os)]
    /\ calls' = calls + 1
    /\ UNCHANGED signals

call_detect_architecture ==
    /\ calls < MaxCalls
    /\ ret' = [ret EXCEPT !.arch = detect_architecture(ARCH)]
    /\ calls' = calls + 1
    /\ UNCHANGED signals

(* Variant: the "x11" default is written back to the environment. *)
call_detect_windowsystem_set_var ==
    /\ calls < MaxCalls
    /\ ret' = [ret EXCEPT !.ws = detect_windowsystem(OS, environ)]
    /\ calls' = calls + 1
    /\ environ' = [environ EXCEPT !["XDG_SESSION_TYPE"] =
                      IF is_ok(var(environ, "XDG_SESSION_TYPE"))
                      THEN @ ELSE Str("x11")]
    /\ UNCHANGED <<OS, ARCH, target_env, target_os>>

call_detect_windowsystem ==
    /\ calls < MaxCalls
    /\ ret' = [ret EXCEPT !.ws = detect_windowsystem(OS, environ)]
    /\ calls' = calls + 1
    /\ UNCHANGED signals

Next ==
    \/ call_detect_os
    \/ call_detect_architecture
    \/ call_detect_windowsystem

Spec == Init /\ [][Next]_vars

----------------------------------------------------------------------------
(* Properties *)

called(d) == ret[d] # NoCall

readable(name) == environ[name][1] = "Str"

(* C1: detect_os returns the variant of the documented table by exact     *)
(* match on the platform name: "linux" gives Linux(NormalLinuxMusl) when   *)
(* the ABI is musl and Linux(NormalLinuxGnu) for every other ABI,          *)
(* "windows" gives Windows(Windows), the four BSD names give BSD,          *)
(* "solaris" and "illumos" give SolarisOrUhOopsIMeanIllumos, "dos" gives   *)
(* DOS, "android" gives Linux(Android), "ios" gives Darwin(IOS), "macos"   *)
(* gives Darwin(_), every other name gives Unknown.                        *)
C1_DetectOsTable ==
    called("os") =>
      /\ OS = "linux" =>
           ret.os = <<"UnixLike", "Linux",
                      IF target_env = "musl" THEN "NormalLinuxMusl"
                                             ELSE "NormalLinuxGnu">>
      /\ OS = "windows" => ret.os = <<"Windows", "Windows">>
      /\ OS \in {"freebsd", "netbsd", "openbsd", "dragonfly"} =>
           ret.os = <<"UnixLike", "BSD">>
      /\ OS \in {"solaris", "illumos"} =>
           ret.os = <<"UnixLike", "SolarisOrUhOopsIMeanIllumos">>
      /\ OS = "dos" => ret.os = <<"DOS">>
      /\ OS = "android" => ret.os = <<"UnixLike", "Linux", "Android">>
      /\ OS = "ios" => ret.os = <<"UnixLike", "Darwin", "IOS">>
      /\ OS = "macos" =>
           /\ Len(ret.os) = 3
           /\ SubSeq(ret.os, 1, 2) = <<"UnixLike", "Darwin">>
           /\ ret.os[3] \in DarwinKernel
      /\ OS \notin {"linux", "windows", "freebsd", "netbsd", "openbsd",
                    "dragonfly", "solaris", "illumos", "dos", "android",
                    "ios", "macos"} => ret.os = <<"Unknown">>

C1_Witness ==
    /\ OS = "dragonfly"
    /\ ret.os = <<"UnixLike", "BSD">>

(* The documented architecture table, name by name. *)
C2_Table ==
    [x86_64 |-> <<"X86", "AMD64">>, i386 |-> <<"X86", "I386">>,
     i486 |-> <<"X86", "I486">>, i586 |-> <<"X86", "I586">>,
     i686 |-> <<"X86", "I686">>, arm |-> <<"ARM", "AArch32">>,
     aarch64 |-> <<"ARM", "AArch64">>, mips |-> <<"MIPS", "Mips32">>,
     mips64 |-> <<"MIPS", "Mips64">>, powerpc |-> <<"PowerPC">>,
     sparc |-> <<"SPARC">>, risc |-> <<"RISC">>, riscv |-> <<"RISCV">>,
     alpha |-> <<"Alpha">>, ia64 |-> <<"IA64">>, hppa |-> <<"HPPA">>,
     s390 |-> <<"S390">>, s390x |-> <<"S390X">>, sh |-> <<"SuperH">>,
     systemz |-> <<"SystemZ">>, xcore |-> <<"XCore">>]

(* C2: detect_architecture returns the variant of the documented table    *)
(* by exact match on the architecture name, "8086" gives                   *)
(* X86(EightyEightySix), and every name not in the table gives Other.      *)
C2_DetectArchitectureTable ==
    called("arch") =>
      ret.arch = IF ARCH \in DOMAIN C2_Table THEN C2_Table[ARCH]
                 ELSE IF ARCH = "8086" THEN <<"X86", "EightyEightySix">>
                 ELSE <<"Other">>

C2_Witness ==
    /\ ARCH = "s390x"
    /\ ret.arch = <<"S390X">>

(* C3: on platform "linux", detect_windowsystem returns None if and only  *)
(* if neither DISPLAY nor WAYLAND_DISPLAY is readable, whatever the value  *)
(* of XDG_SESSION_TYPE.                                                    *)
C3_NoneIffNoDisplay ==
    (OS = "linux" /\ called("ws")) =>
      (ret.ws = <<"None">>
         <=> (~readable("DISPLAY") /\ ~readable("WAYLAND_DISPLAY")))

C3_Witness ==
    /\ OS = "linux"
    /\ environ["DISPLAY"] = Unset
    /\ environ["WAYLAND_DISPLAY"] = Bytes
    /\ environ["XDG_SESSION_TYPE"] = Str("wayland")
    /\ ret.ws = <<"None">>

(* C4: on platform "linux" with DISPLAY or WAYLAND_DISPLAY readable,      *)
(* detect_windowsystem returns Wayland exactly when XDG_SESSION_TYPE is    *)
(* set to the string "wayland" (case-sensitive) and X11 in every other     *)
(* case; the two display variables do not influence that choice.           *)
C4_WaylandIffSessionType ==
    (/\ OS = "linux"
     /\ called("ws")
     /\ (readable("DISPLAY") \/ readable("WAYLAND_DISPLAY"))) =>
      ret.ws = IF environ["XDG_SESSION_TYPE"] = Str("wayland")
               THEN <<"Wayland">> ELSE <<"X11">>

C4_Witness ==
    /\ OS = "linux"
    /\ environ["DISPLAY"] = Unset
    /\ environ["WAYLAND_DISPLAY"] = Str("wayland-0")
    /\ environ["XDG_SESSION_TYPE"] = Str("Wayland")
    /\ ret.ws = <<"X11">>

(* C5: on every platform other than "linux" the result of                 *)
(* detect_windowsystem is fixed by the platform name alone: "macos" gives  *)
(* Quartz, "windows" gives ExplorerDotExe, every other name gives Unknown, *)
(* and every other setting of the three environment variables gives the    *)
(* same result.                                                            *)
C5_NonLinuxIgnoresEnvironment ==
    (OS # "linux" /\ called("ws")) =>
      /\ ret.ws = IF OS = "macos" THEN <<"Quartz">>
                  ELSE IF OS = "windows" THEN <<"ExplorerDotExe">>
                  ELSE <<"Unknown">>
      /\ \A e \in Environs : detect_windowsystem(OS, e) = ret.ws

C5_Witness ==
    /\ OS = "android"
    /\ environ["DISPLAY"] = Unset
    /\ environ["WAYLAND_DISPLAY"] = Unset
    /\ environ["XDG_SESSION_TYPE"] = Str("wayland")
    /\ ret.ws = <<"Unknown">>

(* The Darwin sub-variant documented for each platform-family signal. *)
C6_FamilyKernel ==
    [ios |-> "IOS", macos |-> "MacOSGreaterThan9", ipados |-> "IPadOs",
     watchos |-> "WatchOS", tvos |-> "TVOS"]

C7_WindowsWithWaylandPossible ==
    (called("os") /\ ret.os[1] = "Windows") =>
      \E e \in Environs : detect_windowsystem(OS, e) = <<"Wayland">>

(* C7 (amended): the two outputs are tied by the platform name both       *)
(* detectors match on: when detect_os returns Windows(_),                  *)
(* detect_windowsystem returns ExplorerDotExe and never Wayland, and       *)
(* Wayland is returned only together with Linux(NormalLinuxGnu) or         *)
(* Linux(NormalLinuxMusl).                                                 *)
C7_OutputsTiedByPlatform ==
    (called("os") /\ called("ws")) =>
      /\ ret.os[1] = "Windows" => ret.ws = <<"ExplorerDotExe">>
      /\ ret.ws = <<"Wayland">> =>
           ret.os \in {<<"UnixLike", "Linux", "NormalLinuxGnu">>,
                       <<"UnixLike", "Linux", "NormalLinuxMusl">>}

C7_Witness ==
    /\ ret.os = <<"Windows", "Windows">>
    /\ ret.ws = <<"ExplorerDotExe">>
    /\ environ["DISPLAY"] = Str(":0")
    /\ environ["XDG_SESSION_TYPE"] = Str("wayland")

(* C8: no detector returns a documented-unreachable variant: detect_os    *)
(* never returns Windows(WindowsServer), detect_architecture never         *)
(* returns ARM(AppleSilicon) nor MIPS(MipsI) .. MIPS(MipsV).               *)
C8_UnreachableVariants ==
    /\ ret.os # <<"Windows", "WindowsServer">>
    /\ ret.arch \notin {<<"ARM", "AppleSilicon">>, <<"MIPS", "MipsI">>,
                        <<"MIPS", "MipsII">>, <<"MIPS", "MipsIII">>,
                        <<"MIPS", "MipsIV">>, <<"MIPS", "MipsV">>}

C8_Witness ==
    /\ ARCH = "mips"
    /\ ret.arch = <<"MIPS", "Mips32">>
    /\ ret.os = <<"Windows", "Windows">>

(* C9: in any sequence of detector calls, a call leaves every ambient     *)
(* signal as it was, and a detector that has returned a value returns the  *)
(* same value on every later call.                                         *)
C9_Idempotent ==
    [][/\ signals' = signals
       /\ \A d \in {"os", "arch", "ws"} : called(d) => ret'[d] = ret[d]]_vars

C9_Witness ==
    /\ calls = 2
    /\ OS = "linux"
    /\ environ["DISPLAY"] = Str(":0")
    /\ environ["XDG_SESSION_TYPE"] = Unset
    /\ ret = [os |-> NoCall, arch |-> NoCall, ws |-> <<"X11">>]

(* C10: every detector call returns exactly one value of its taxonomy     *)
(* and never a panic, for unrecognized names and for absent or unreadable  *)
(* environment variables too.                                              *)
C10_Total ==
    /\ called("os") => ret.os \in OperatingSystem
    /\ called("arch") => ret.arch \in CPU
    /\ called("ws") => ret.ws \in WindowSystem

C10_Witness ==
    /\ OS = "linux"
    /\ target_env = ""
    /\ environ["DISPLAY"] = Bytes
    /\ environ["WAYLAND_DISPLAY"] = Str("wayland-0")
    /\ environ["XDG_SESSION_TYPE"] = Bytes
    /\ ret.os = <<"UnixLike", "Linux", "NormalLinuxGnu">>
    /\ ret.ws = <<"X11">>

====
